---- MODULE Spec2Model ----
(***************************************************************************)
(* Model of the three authenticated data structures of lil-merkle-trees-rs: *)
(*   merkle_tree.rs             MerkleTree  (new, generate_proof, verify)   *)
(*   sparse_merkle_tree.rs      SparseMerkleTree (insert, proofs)           *)
(*   merkle_mountain_ranges.rs  MMR (append, bag_peaks, root)               *)
(*                                                                         *)
(* SHA-256 is modelled as a collision-free symbolic hash: the digest of a   *)
(* byte string x is the string "(" x ")".  Feeding a hasher two slices      *)
(* (update; update) or formatting two strings "{}{}" is concatenation \o,   *)
(* exactly as in the source, so H(a || b) keeps the source's lack of        *)
(* domain separation between leaf and pair hashing.                         *)
(***************************************************************************)
EXTENDS Integers, Sequences, FiniteSets, TLC

VARIABLES
    mt_data,      \* MerkleTree::new's argument `data`
    mt_leaves,    \* MerkleTree.leaves
    mt_root,      \* MerkleTree.root
    mt_proof,     \* last generate_proof call: its argument and what it returned
    mt_verify,    \* last verify_proof call: its arguments and what it returned
    smt_root,     \* SparseMerkleTree.root
    smt_insert,   \* last insert call: its arguments
    smt_proof,    \* last SparseMerkleTree::generate_proof call
    smt_verify,   \* last SparseMerkleTree::verify_proof call
    peaks,        \* MMR.peaks
    leaves,       \* MMR.leaves
    bag_size      \* MMR.bag_size

vars == <<mt_data, mt_leaves, mt_root, mt_proof, mt_verify,
          smt_root, smt_insert, smt_proof, smt_verify,
          peaks, leaves, bag_size>>

mt_vars == <<mt_data, mt_leaves, mt_root, mt_proof, mt_verify>>
smt_vars == <<smt_root, smt_insert, smt_proof, smt_verify>>
mmr_vars == <<peaks, leaves, bag_size>>

-----------------------------------------------------------------------------
(* Bounds of the model *)

\* longest item sequence a MerkleTree is built from
MaxLeaves == 7
\* most appends made to one MMR
MaxAppends == 16
\* largest bag_size an MMR is constructed with
MaxBagSize == 4

\* the items / payloads the operations are called with
Items == {"a", "b"}

-----------------------------------------------------------------------------
(* Hash primitive *)

\* Sha256::digest(x) / Sha256::new().update(..).finalize(), collision-free
Sha256(bytes) == "(" \o bytes \o ")"

\* tampered_proof[0].0[0] ^= 1 : a digest that differs from d in one bit
FlipBit(d) == "~" \o d

-----------------------------------------------------------------------------
(* merkle_tree.rs *)

hash_leaf(leaf) == Sha256(leaf)

\* a hash_pair that forgets hasher.update(right)
hash_pair_left_only(left, right) == Sha256(left)

hash_pair(left, right) == Sha256(left \o right)

\* level.chunks(2): [left, right] => hash_pair, [single] => single.clone()
hash_level(level) ==
    [c \in 1..((Len(level) + 1) \div 2) |->
        IF 2 * c <= Len(level)
        THEN hash_pair(level[2 * c - 1], level[2 * c])
        ELSE level[2 * c - 1]]

RECURSIVE find_root(_)
\* callers pass a non-empty level (next().unwrap() panics on an empty one)
find_root(current_level) ==
    IF Len(current_level) > 1
    THEN find_root(hash_level(current_level))
    ELSE current_level[1]

\* current_index ^ 1 on usize
Xor1(n) == IF n % 2 = 0 THEN n + 1 ELSE n - 1

\* a proof entry whose flag has the wrong parity
proof_entry_flag_flipped(current_level, current_index) ==
    <<current_level[Xor1(current_index) + 1], current_index % 2 = 1>>

\* (current_level[sibling].clone(), current_index % 2 == 0)
proof_entry(current_level, current_index) ==
    <<current_level[Xor1(current_index) + 1], current_index % 2 = 0>>

RECURSIVE generate_proof_loop(_, _, _)
generate_proof_loop(current_level, current_index, proof) ==
    IF Len(current_level) > 1
    THEN generate_proof_loop(
            hash_level(current_level),
            current_index \div 2,
            IF Xor1(current_index) < Len(current_level)
            THEN Append(proof, proof_entry(current_level, current_index))
            ELSE proof)
    ELSE proof

\* indices are 0-based as in the source; sequences are 1-based
generate_proof(tree_leaves, leaf_index) ==
    generate_proof_loop(tree_leaves, leaf_index, <<>>)

RECURSIVE verify_proof_loop(_, _, _)
verify_proof_loop(current_hash, proof, n) ==
    IF n > Len(proof)
    THEN current_hash
    ELSE verify_proof_loop(
            IF proof[n][2]
            THEN hash_pair(current_hash, proof[n][1])
            ELSE hash_pair(proof[n][1], current_hash),
            proof, n + 1)

verify_proof(root, leaf, proof) ==
    verify_proof_loop(leaf, proof, 1) = root

NoCall == [called |-> FALSE]

\* every non-empty item sequence of at most MaxLeaves items
ItemSeqs == UNION {[1..n -> Items] : n \in 1..MaxLeaves}

\* no MerkleTree constructed (the other structures are under study)
MtAbsent ==
    /\ mt_data = <<>>
    /\ mt_leaves = <<>>
    /\ mt_root = ""
    /\ mt_proof = NoCall
    /\ mt_verify = NoCall

\* MerkleTree::new(data)
MtNew ==
    /\ mt_data \in ItemSeqs
    /\ mt_leaves = [n \in 1..Len(mt_data) |-> hash_leaf(mt_data[n])]
    /\ mt_root = find_root(mt_leaves)
    /\ mt_proof = NoCall
    /\ mt_verify = NoCall

\* tree.generate_proof(leaf_index): the source has no bounds check and no
\* error path, so every index returns a Vec
MtGenerateProof(leaf_index) ==
    /\ mt_proof' = [called |-> TRUE,
                    leaf_index |-> leaf_index,
                    status |-> "Returned",
                    proof |-> generate_proof(mt_leaves, leaf_index)]
    /\ mt_verify' = NoCall
    /\ UNCHANGED <<mt_data, mt_leaves, mt_root>>

\* ways a caller replaces a proof entry's sibling digest: one bit flipped (as the
\* test does), the tree's root, or the hash of an item
Tamperings == {"flip", "root"} \cup Items

Replacement(d, how) ==
    IF how = "flip" THEN FlipBit(d)
    ELSE IF how = "root" THEN mt_root
    ELSE hash_leaf(how)

\* MerkleTree::verify_proof(tree.root(), &leaf, &proof) on the proof as generated
MtVerifyProof(leaf) ==
    /\ mt_proof.called
    /\ mt_verify' = [called |-> TRUE,
                     leaf |-> leaf,
                     proof |-> mt_proof.proof,
                     result |-> verify_proof(mt_root, leaf, mt_proof.proof)]
    /\ UNCHANGED <<mt_data, mt_leaves, mt_root, mt_proof>>

\* ... and on a copy of the proof with the sibling of entry n replaced
MtVerifyTampered(leaf, n, how) ==
    /\ mt_proof.called
    /\ n \in 1..Len(mt_proof.proof)
    /\ Replacement(mt_proof.proof[n][1], how) # mt_proof.proof[n][1]
    /\ LET tampered_proof ==
               [mt_proof.proof EXCEPT
                    ![n] = <<Replacement(mt_proof.proof[n][1], how), mt_proof.proof[n][2]>>]
       IN mt_verify' = [called |-> TRUE,
                        leaf |-> leaf,
                        proof |-> tampered_proof,
                        result |-> verify_proof(mt_root, leaf, tampered_proof)]
    /\ UNCHANGED <<mt_data, mt_leaves, mt_root, mt_proof>>

-----------------------------------------------------------------------------
(* sparse_merkle_tree.rs *)

\* const TREE_DEPTH: usize = 128
TREE_DEPTH == 128
\* key: &[u8; 16]
KEY_LEN == 16
\* let mut path = 0u128 : a u128 is modelled as its bits, 0..127 -> BOOLEAN
U128_BITS == 128

\* The digest of the empty subtree whose root is at level j is written "<j>":
\* "<128>" is vec![0; 32] and "<j>" abbreviates H("<j+1>" || "<j+1>"), whose
\* symbolic form would have 2^(128-j) leaves.  smt_hash_pair keeps the hash
\* collision-free: it returns the abbreviation exactly for those inputs.
EmptySubtree(j) == "<" \o ToString(j) \o ">"

IsEmptySubtree(d) ==
    /\ SubSeq(d, 1, 1) = "<"
    /\ \E j \in 1..TREE_DEPTH : d = EmptySubtree(j)

EmptyLevel(d) == CHOOSE j \in 1..TREE_DEPTH : d = EmptySubtree(j)

smt_hash_leaf(leaf) == Sha256(leaf)

smt_hash_pair(left, right) ==
    IF left = right /\ IsEmptySubtree(left)
    THEN EmptySubtree(EmptyLevel(left) - 1)
    ELSE Sha256(left \o right)

\* default_nodes[i] = Self::hash_pair(&default_nodes[i + 1], &default_nodes[i + 1])
new_step(nodes, i) ==
    [nodes EXCEPT ![i] = smt_hash_pair(nodes[i + 1], nodes[i + 1])]

RECURSIVE new_loop(_, _, _)
\* iterations hi, hi - 1, .., lo of `for i in (0..TREE_DEPTH).rev()`, in that
\* order, run as two halves.  A digest is never empty: the test on `first` only
\* makes TLC evaluate the first half before it starts the second, which keeps
\* the evaluation of 128 iterations shallow.
new_loop(nodes, hi, lo) ==
    IF hi = lo
    THEN new_step(nodes, hi)
    ELSE LET mid == (hi + lo + 1) \div 2
             first == new_loop(nodes, hi, mid)
         IN IF first[mid] = ""
            THEN first
            ELSE new_loop(first, mid - 1, lo)

\* SparseMerkleTree.default_nodes, indexed 0..TREE_DEPTH: vec![vec![0; 32]; TREE_DEPTH + 1]
\* filled by new(); never written afterwards
default_nodes ==
    new_loop([i \in 0..TREE_DEPTH |-> EmptySubtree(TREE_DEPTH)], TREE_DEPTH - 1, 0)

\* 0u128
ZeroU128 == [b \in 0..(U128_BITS - 1) |-> FALSE]

\* key[i / 8] as u128 & (1 << (i % 8)) : the set bits of the masked byte, at
\* most the one bit i % 8
key_mask(key, i) ==
    IF (key[(i \div 8) + 1] \div (2 ^ (i % 8))) % 2 = 1 THEN {i % 8} ELSE {}

\* x << i on a u128: bits shifted past the top are dropped
Shl(bits, n) == {b + n : b \in {c \in bits : c + n < U128_BITS}}

\* path |= (key[i / 8] as u128 & (1 << (i % 8))) << i ; the operand has at most
\* one bit set
path_step(path, key, i) ==
    LET bits == Shl(key_mask(key, i), i)
    IN IF bits = {}
       THEN path
       ELSE [path EXCEPT ![CHOOSE b \in bits : TRUE] = TRUE]

\* path & (1 << i) == 0
bit_clear(path, i) == ~path[i]

\* one iteration i of insert's loop on its variables st = (path, current_node)
insert_step(key, st, i) ==
    LET p == path_step(st.path, key, i)
        \* both arms of the source's `if` pick default_nodes[i + 1]
        sibling == default_nodes[i + 1]
    IN [path |-> p,
        current_node |->
            IF bit_clear(p, i)
            THEN smt_hash_pair(st.current_node, sibling)
            ELSE smt_hash_pair(sibling, st.current_node)]

RECURSIVE insert_loop(_, _, _, _)
\* iterations hi, hi - 1, .., lo of insert's loop, in that order, run as two
\* halves like new_loop
insert_loop(key, st, hi, lo) ==
    IF hi = lo
    THEN insert_step(key, st, hi)
    ELSE LET mid == (hi + lo + 1) \div 2
             first == insert_loop(key, st, hi, mid)
         IN IF first.current_node = ""
            THEN first
            ELSE insert_loop(key, first, mid - 1, lo)

\* the root that insert(key, value) stores: self.root = current_node
smt_insert_root(key, value) ==
    insert_loop(key, [path |-> ZeroU128, current_node |-> smt_hash_leaf(value)],
                TREE_DEPTH - 1, 0).current_node

\* proof.push(self.default_nodes[i + 1].clone()) for i in (0..TREE_DEPTH).rev();
\* the path the loop accumulates is never read
smt_generate_proof(key) ==
    [n \in 1..TREE_DEPTH |-> default_nodes[(TREE_DEPTH - n) + 1]]

\* a verifier that reads the proof in the wrong order
smt_proof_entry_reversed(proof, i) == proof[i + 1]

\* proof[TREE_DEPTH - 1 - i]
smt_proof_entry(proof, i) == proof[(TREE_DEPTH - 1 - i) + 1]

\* one iteration i of verify_proof's loop on its variables st = (path, current_node)
smt_verify_step(key, proof, st, i) ==
    LET p == path_step(st.path, key, i)
    IN [path |-> p,
        current_node |->
            IF bit_clear(p, i)
            THEN smt_hash_pair(st.current_node, smt_proof_entry(proof, i))
            ELSE smt_hash_pair(smt_proof_entry(proof, i), st.current_node)]

RECURSIVE smt_verify_loop(_, _, _, _, _)
\* iterations hi, hi - 1, .., lo of verify_proof's loop, in that order, run as
\* two halves like insert_loop
smt_verify_loop(key, proof, st, hi, lo) ==
    IF hi = lo
    THEN smt_verify_step(key, proof, st, hi)
    ELSE LET mid == (hi + lo + 1) \div 2
             first == smt_verify_loop(key, proof, st, hi, mid)
         IN IF first.current_node = ""
            THEN first
            ELSE smt_verify_loop(key, proof, first, mid - 1, lo)

\* value: Option<&[u8]> is <<>> for None and <<v>> for Some(v)
smt_verify_proof(root, key, value, proof) ==
    LET start == IF value = <<>>
                 THEN default_nodes[TREE_DEPTH]
                 ELSE smt_hash_leaf(value[1])
    IN smt_verify_loop(key, proof, [path |-> ZeroU128, current_node |-> start],
                       TREE_DEPTH - 1, 0).current_node = root

\* the keys of the tests ([0u8; 16], [1u8; 16], [2u8; 16]) and [1, 0, .., 0]
Keys ==
    {[n \in 1..KEY_LEN |-> b] : b \in 0..2}
        \cup {[n \in 1..KEY_LEN |-> IF n = 1 THEN 1 ELSE 0]}

Values == {"value1", "value2"}

\* no SparseMerkleTree constructed
SmtAbsent ==
    /\ smt_root = ""
    /\ smt_insert = NoCall
    /\ smt_proof = NoCall
    /\ smt_verify = NoCall

\* SparseMerkleTree::new()
SmtNew ==
    /\ smt_root = default_nodes[0]
    /\ smt_insert = NoCall
    /\ smt_proof = NoCall
    /\ smt_verify = NoCall

\* tree.insert(&key, value)
SmtInsert(key, value) ==
    /\ smt_root' = smt_insert_root(key, value)
    /\ smt_insert' = [called |-> TRUE, key |-> key, value |-> value]
    /\ smt_proof' = NoCall
    /\ smt_verify' = NoCall

\* tree.generate_proof(&key)
SmtGenerateProof(key) ==
    /\ smt_proof' = [called |-> TRUE, key |-> key, proof |-> smt_generate_proof(key)]
    /\ smt_verify' = NoCall
    /\ UNCHANGED <<smt_root, smt_insert>>

\* tree.verify_proof(&key, value, &proof) on the last generated proof
SmtVerifyProof(key, value) ==
    /\ smt_proof.called
    /\ smt_verify' = [called |-> TRUE,
                      key |-> key,
                      value |-> value,
                      result |-> smt_verify_proof(smt_root, key, value, smt_proof.proof)]
    /\ UNCHANGED <<smt_root, smt_insert, smt_proof>>

-----------------------------------------------------------------------------
(* merkle_mountain_ranges.rs *)

\* fn hash(data: &str) -> String : lowercase hex of SHA-256, never empty
hash(data) == Sha256(data)

\* String::is_empty(): the empty string marks an empty slot
is_empty(s) == s = ""

\* a carry-merge that merges but leaves the merged slot in place
carry_clear_forgotten(pk, height) == pk

\* self.peaks[height] = String::new()
carry_clear(pk, height) == [pk EXCEPT ![height + 1] = ""]

\* a carry-merge that hashes the new hash first
carry_hash_swapped(peak, current_hash) == hash(current_hash \o peak)

\* hash(&format!("{}{}", self.peaks[height], current_hash))
carry_hash(peak, current_hash) == hash(peak \o current_hash)

RECURSIVE carry_merge(_, _, _)
\* while height < self.peaks.len() && !self.peaks[height].is_empty() { .. }
carry_merge(pk, current_hash, height) ==
    IF height < Len(pk) /\ ~is_empty(pk[height + 1])
    THEN carry_merge(carry_clear(pk, height),
                     carry_hash(pk[height + 1], current_hash),
                     height + 1)
    ELSE [peaks |-> pk, current_hash |-> current_hash, height |-> height]

\* for peak in new_peaks { push or overwrite at height } : new_peaks has one element
place_peak(pk, peak, height) ==
    IF height = Len(pk)
    THEN Append(pk, peak)
    ELSE [pk EXCEPT ![height + 1] = peak]

RECURSIVE concat(_, _, _)
\* bag += &self.peaks[i + j] for j in 0..bag_size
concat(pk, i, n) ==
    IF n = 0 THEN "" ELSE concat(pk, i, n - 1) \o pk[i + (n - 1) + 1]

\* a window that is found full but is not compacted
bag_window_skipped(pk, i, size) == pk

\* one window [i, i + bag_size) of bag_peaks
bag_window(pk, i, size) ==
    IF \A j \in 0..(size - 1) : ~is_empty(pk[i + j + 1])
    THEN [s \in 1..Len(pk) |->
            IF s = i + 1 THEN hash(concat(pk, i, size))
            ELSE IF s > i + 1 /\ s <= i + size THEN ""
            ELSE pk[s]]
    ELSE pk

RECURSIVE bag_loop_strict(_, _, _)
\* a scan whose bound is off by one: `i + self.bag_size < self.peaks.len()`
bag_loop_strict(pk, i, size) ==
    IF i + size < Len(pk)
    THEN bag_loop_strict(bag_window(pk, i, size), i + 1, size)
    ELSE pk

RECURSIVE bag_loop(_, _, _)
\* while i + self.bag_size <= self.peaks.len() { .. i += 1 }
bag_loop(pk, i, size) ==
    IF i + size <= Len(pk)
    THEN bag_loop(bag_window(pk, i, size), i + 1, size)
    ELSE pk

bag_peaks(pk, size) == bag_loop(pk, 0, size)

\* the peak array after append(data)
append_peaks(pk, data, size) ==
    LET carried == carry_merge(pk, hash(data), 0)
    IN bag_peaks(place_peak(carried.peaks, carried.current_hash, carried.height), size)

RECURSIVE root_loop(_, _, _)
\* for peak in self.peaks.iter().rev() { .. }
root_loop(pk, n, current_hash) ==
    IF n = 0
    THEN current_hash
    ELSE root_loop(pk, n - 1,
            IF is_empty(pk[n]) THEN current_hash
            ELSE IF is_empty(current_hash) THEN pk[n]
            ELSE hash(pk[n] \o current_hash))

RECURSIVE root_top_only_loop(_, _, _)
\* a fold that keeps the highest peak and never folds the lower ones in
root_top_only_loop(pk, n, current_hash) ==
    IF n = 0
    THEN current_hash
    ELSE root_top_only_loop(pk, n - 1,
            IF is_empty(pk[n]) THEN current_hash
            ELSE IF is_empty(current_hash) THEN pk[n]
            ELSE current_hash)

root_top_only(pk) == root_top_only_loop(pk, Len(pk), "")

\* MMR::root()
root(pk) == root_loop(pk, Len(pk), "")

\* no MMR constructed
MmrAbsent ==
    /\ peaks = <<>>
    /\ leaves = <<>>
    /\ bag_size = 0

\* MMR::new(bag_size), bag_size >= 2
MmrNew ==
    /\ peaks = <<>>
    /\ leaves = <<>>
    /\ bag_size \in 2..MaxBagSize

\* mmr.append(data)
MmrAppend(data) ==
    /\ Len(leaves) < MaxAppends
    /\ leaves' = Append(leaves, hash(data))
    /\ peaks' = append_peaks(peaks, data, bag_size)
    /\ UNCHANGED bag_size

-----------------------------------------------------------------------------
(* Specifications: one per structure; the structures share no state *)

MtInit == MtNew /\ SmtAbsent /\ MmrAbsent

MtNext ==
    \/ \E leaf_index \in 0..MaxLeaves :
            MtGenerateProof(leaf_index) /\ UNCHANGED <<smt_vars, mmr_vars>>
    \/ \E x \in Items :
            MtVerifyProof(hash_leaf(x)) /\ UNCHANGED <<smt_vars, mmr_vars>>
    \/ \E x \in Items, n \in 1..MaxLeaves, how \in Tamperings :
            MtVerifyTampered(hash_leaf(x), n, how) /\ UNCHANGED <<smt_vars, mmr_vars>>

SpecMT == MtInit /\ [][MtNext]_vars

SmtInit == MtAbsent /\ SmtNew /\ MmrAbsent

SmtNext ==
    \/ \E key \in Keys, value \in Values :
            SmtInsert(key, value) /\ UNCHANGED <<mt_vars, mmr_vars>>
    \/ \E key \in Keys :
            SmtGenerateProof(key) /\ UNCHANGED <<mt_vars, mmr_vars>>
    \/ \E key \in Keys, value \in {<<>>} \cup {<<v>> : v \in Values} :
            SmtVerifyProof(key, value) /\ UNCHANGED <<mt_vars, mmr_vars>>

SpecSMT == SmtInit /\ [][SmtNext]_vars

MmrInit == MtAbsent /\ SmtAbsent /\ MmrNew

MmrNext ==
    \E data \in Items : MmrAppend(data) /\ UNCHANGED <<mt_vars, smt_vars>>

SpecMMR == MmrInit /\ [][MmrNext]_vars

Init == MtInit \/ SmtInit \/ MmrInit
Next == MtNext \/ SmtNext \/ MmrNext
Spec == Init /\ [][Next]_vars

-----------------------------------------------------------------------------
(* Properties of merkle_tree.rs, checked under SpecMT *)

\* the last verify_proof call was made for a leaf index present in the tree
MtValidCall == mt_verify.called /\ mt_proof.leaf_index < Len(mt_leaves)

\* leaf_hash(items[i]) for the index i the proof was generated for
MtGenuineLeaf == hash_leaf(mt_data[mt_proof.leaf_index + 1])

\* q is p with the sibling digest of exactly one entry changed
SingleSiblingChanged(p, q) ==
    /\ Len(p) = Len(q)
    /\ \A n \in 1..Len(p) : p[n][2] = q[n][2]
    /\ Cardinality({n \in 1..Len(p) : p[n][1] # q[n][1]}) = 1

\* C1: for every non-empty item sequence and every leaf index i below the number
\* of leaves, verify_proof(root(), leaf_hash(items[i]), generate_proof(i)) is
\* true, also when a level has an odd number of nodes.
C1_ProofVerifies ==
    (/\ MtValidCall
     /\ mt_verify.proof = mt_proof.proof
     /\ mt_verify.leaf = MtGenuineLeaf)
        => mt_verify.result = TRUE

\* C1 witness: five leaves, proof of the last one, which is carried up unpaired
\* through two levels, verified
C1_Witness ==
    /\ MtValidCall
    /\ Len(mt_leaves) = 5
    /\ mt_proof.leaf_index = 4
    /\ mt_verify.proof = mt_proof.proof
    /\ mt_verify.leaf = MtGenuineLeaf
    /\ mt_verify.result = TRUE

\* C2: for p = generate_proof(i), verify_proof(r, leaf', p) is false for the
\* hash leaf' of every item other than items[i], and
\* verify_proof(r, leaf_hash(items[i]), p') is false for every p' that is p with
\* the sibling digest of one entry changed.
C2_TamperRejected ==
    MtValidCall =>
        /\ (/\ mt_verify.proof = mt_proof.proof
            /\ \E x \in Items : x # mt_data[mt_proof.leaf_index + 1]
                                /\ mt_verify.leaf = hash_leaf(x))
                => mt_verify.result = FALSE
        /\ (/\ mt_verify.leaf = MtGenuineLeaf
            /\ SingleSiblingChanged(mt_proof.proof, mt_verify.proof))
                => mt_verify.result = FALSE

\* C2 witness: a proof of three entries whose second sibling was replaced is
\* rejected for the genuine leaf
C2_Witness ==
    /\ MtValidCall
    /\ Len(mt_proof.proof) = 3
    /\ mt_verify.leaf = MtGenuineLeaf
    /\ SingleSiblingChanged(mt_proof.proof, mt_verify.proof)
    /\ mt_verify.proof[2][1] # mt_proof.proof[2][1]
    /\ mt_verify.result = FALSE

\* C3: generate_proof(leaf_index) fails with IndexOutOfRange whenever
\* leaf_index >= number of leaves; it never returns a proof for such an index.
C3_IndexOutOfRange ==
    (mt_proof.called /\ mt_proof.leaf_index >= Len(mt_leaves))
        => mt_proof.status = "IndexOutOfRange"

-----------------------------------------------------------------------------
(* Properties of sparse_merkle_tree.rs, checked under SpecSMT *)

\* C4: after any non-empty sequence of inserts whose last is insert(k, v),
\* verify_proof(k, Some(v), generate_proof(k)) is true.
C4_LastInsertVerifies ==
    (/\ smt_insert.called
     /\ smt_verify.called
     /\ smt_proof.key = smt_insert.key
     /\ smt_verify.key = smt_insert.key
     /\ smt_verify.value = <<smt_insert.value>>)
        => smt_verify.result = TRUE

\* C4 witness: the key [1u8; 16], whose path turns right, inserted last and verified
C4_Witness ==
    /\ smt_insert.called
    /\ smt_verify.called
    /\ smt_insert.key = [n \in 1..KEY_LEN |-> 1]
    /\ smt_proof.key = smt_insert.key
    /\ smt_verify.key = smt_insert.key
    /\ smt_verify.value = <<smt_insert.value>>
    /\ smt_verify.result = TRUE

\* C5: after the most recent insert(k, v), verify_proof(k', Some(v), proof) is
\* false for every 16-byte key k' # k, and verify_proof(k, Some(v'), proof) is
\* false for every value v' # v, proof being the output of generate_proof.
C5_WrongKeyOrValueRejected ==
    (smt_insert.called /\ smt_verify.called) =>
        /\ (smt_verify.key # smt_insert.key /\ smt_verify.value = <<smt_insert.value>>)
                => smt_verify.result = FALSE
        /\ (/\ smt_verify.key = smt_insert.key
            /\ smt_verify.value # <<>>
            /\ smt_verify.value # <<smt_insert.value>>)
                => smt_verify.result = FALSE

-----------------------------------------------------------------------------
(* Properties of merkle_mountain_ranges.rs, checked under SpecMMR *)

\* mmr.peaks.iter().filter(|&p| !p.is_empty()).count()
non_empty_peaks == Cardinality({s \in 1..Len(peaks) : ~is_empty(peaks[s])})

\* (n as f64).log2().ceil() for n >= 1
CeilLog2(n) == CHOOSE e \in 0..n : 2 ^ e >= n /\ (e = 0 \/ 2 ^ (e - 1) < n)

\* for i in 0..10 { mmr.append(..) } of test_multiple_bagging
TEST_APPENDS == 10

RECURSIVE SubtreeRoot(_, _)
\* the root of the perfect binary tree over the 2^h leaves leaves[lo .. lo + 2^h - 1]
SubtreeRoot(h, lo) ==
    IF h = 0
    THEN leaves[lo]
    ELSE hash(SubtreeRoot(h - 1, lo) \o SubtreeRoot(h - 1, lo + 2 ^ (h - 1)))

\* the number of leaves a digest commits to: every appended item is one
\* character of Items, and hashing adds only parentheses
LeafCount(digest) ==
    Cardinality({c \in 1..Len(digest) : SubSeq(digest, c, c) \in Items})

RECURSIVE LeafCountUpTo(_)
\* the leaves committed to by the slots 1..s of the peak array together
LeafCountUpTo(s) ==
    IF s = 0 THEN 0 ELSE LeafCountUpTo(s - 1) + LeafCount(peaks[s])

\* every non-empty slot h is the subtree root of 2^h consecutive leaves of the log
PeaksArePerfectSubtrees ==
    \A h \in 0..(Len(peaks) - 1) :
        ~is_empty(peaks[h + 1]) =>
            \E lo \in 1..(Len(leaves) - 2 ^ h + 1) : peaks[h + 1] = SubtreeRoot(h, lo)

\* C6: for bag_size >= 2 every append changes the value root() returns,
\* the first append from the empty root included.
C6_AppendChangesRoot ==
    [][leaves' # leaves => root(peaks') # root(peaks)]_vars

\* C6 witness: the eleventh append of test_multiple_bagging has been made
C6_Witness ==
    /\ bag_size = 3
    /\ Len(leaves) = TEST_APPENDS + 1
    /\ ~is_empty(root(peaks))
    /\ non_empty_peaks = 2

\* C7: with bag_size = 2, after every append (every n >= 1, n = 8 in
\* particular) exactly one slot of the peak array is non-empty.
C7_OnePeakForBagTwo ==
    (bag_size = 2 /\ Len(leaves) >= 1) => non_empty_peaks = 1

\* C7 witness: the eight appends of test_bagged_peaks
C7_Witness ==
    /\ bag_size = 2
    /\ Len(leaves) = 8
    /\ non_empty_peaks = 1

\* C8 as claimed: with bag_size = 3, after each of the first 10 appends
\* (n in 1..10) the number of non-empty slots is at most ceil(log2(n)).
C8_PeakCountFromFirstAppend ==
    (bag_size = 3 /\ Len(leaves) \in 1..TEST_APPENDS)
        => non_empty_peaks <= CeilLog2(Len(leaves))

\* C8 amended: with bag_size = 3, after each of the appends 2..10 the number of
\* non-empty slots is at most ceil(log2(n)); after the first append it is 1.
C8_PeakCountFromSecondAppend ==
    /\ (bag_size = 3 /\ Len(leaves) \in 2..TEST_APPENDS)
            => non_empty_peaks <= CeilLog2(Len(leaves))
    /\ (bag_size = 3 /\ Len(leaves) = 1) => non_empty_peaks = 1

\* C8 witness: the ten appends of test_multiple_bagging
C8_Witness ==
    /\ bag_size = 3
    /\ Len(leaves) = TEST_APPENDS
    /\ non_empty_peaks <= CeilLog2(TEST_APPENDS)

\* C9 as claimed: every non-empty slot at index h is a subtree root committing
\* to exactly 2^h consecutive previously appended leaves (a slot stops doing so
\* only by being emptied).
C9_SlotHoldsTwoToTheH == PeaksArePerfectSubtrees

\* C9 amended: every non-empty slot at index h commits to at least 2^h
\* previously appended leaves, every appended leaf is committed to by exactly
\* one slot, and until the first bagging compaction (fewer than
\* 2^bag_size - 1 appends) slot h is the subtree root of exactly 2^h
\* consecutive leaves.
C9_SlotHoldsAtLeastTwoToTheH ==
    /\ \A h \in 0..(Len(peaks) - 1) :
            ~is_empty(peaks[h + 1]) => LeafCount(peaks[h + 1]) >= 2 ^ h
    /\ LeafCountUpTo(Len(peaks)) = Len(leaves)
    /\ Len(leaves) < 2 ^ bag_size - 1 => PeaksArePerfectSubtrees

\* C9 witness: bag_size = 2 after four appends: slot 1 holds all four leaves,
\* the compaction of the third append having written three leaves into slot 0
C9_Witness ==
    /\ bag_size = 2
    /\ Len(leaves) = 4
    /\ Len(peaks) = 2
    /\ is_empty(peaks[1])
    /\ LeafCount(peaks[2]) = 4

\* C10: for every bag_size k >= 2 the peak array never has more than k slots.
C10_PeaksWithinBagSize == Len(peaks) <= bag_size

\* C10 witness: bag_size = 3 after eight appends: the seventh filled slots
\* 0..2 and was compacted, the eighth carried into slot 1
C10_Witness ==
    /\ bag_size = 3
    /\ Len(leaves) = 8
    /\ Len(peaks) = 3
    /\ non_empty_peaks = 1
    /\ ~is_empty(peaks[2])

=============================================================================
